---- MODULE Spec2Model ----
(***************************************************************************)
(* The debate session manager (DebateManager) and the HTTP endpoints of    *)
(* the unified server that drive it.  A session walks through four rounds  *)
(* (constructive, cross-ex, rebuttal, closing); the submit endpoints push  *)
(* a round, wait for the AI service, advance the round counter and, on     *)
(* completion, run the grading loop.  Each handler is cut into the atomic  *)
(* segments between its awaits, so several requests interleave exactly     *)
(* where the single-threaded event loop lets them.  The AI service         *)
(* (GeminiService: argument generation, grading, topic validation) and     *)
(* enforceWordCap are computations on what the remote model hands back;    *)
(* they are called once on every input of a bounded set.                   *)
(***************************************************************************)
EXTENDS Integers, Sequences, FiniteSets, TLC

(***************************************************************************)
(* Bounds of the model.                                                    *)
(***************************************************************************)
\* sessions that createSession may put in the store
MaxSessions == 2
\* rounds in the whole store below which the submit endpoints are served
MaxRounds == 4
\* rounds in the whole store below which direct callers add rounds
MaxApiRounds == 1
\* HTTP requests in flight at the same time
MaxReqs == 2
\* largest value of the wall clock
MaxClock == 1
\* the wordCap the DebateManager is constructed with (180 in the server),
\* scaled down so that texts stay short
WordCap == 2
\* longest text the remote model returns
MaxTextLen == 8
\* longest text handed to enforceWordCap
MaxInputLen == 4
\* largest word limit a caller passes
MaxWordLimit == 3
\* largest number the remote judge writes for a criterion
MaxJudgeScore == 6
\* the longest topic, in words
MaxTopicWords == 2

(***************************************************************************)
(* Texts are sequences of one-character strings.                           *)
(***************************************************************************)
IsSpace(c) == c = " "

\* a property that is absent (undefined) on a JavaScript object
Undefined == <<"undefined">>

NoGrading == "undefined"

\* JavaScript truthiness of an optional string
Truthy(t) == t # Undefined /\ t # <<>>

RECURSIVE trimStart(_)
trimStart(t) ==
    IF t # <<>> /\ IsSpace(Head(t)) THEN trimStart(Tail(t)) ELSE t

RECURSIVE trimEnd(_)
trimEnd(t) ==
    IF t # <<>> /\ IsSpace(t[Len(t)])
    THEN trimEnd(SubSeq(t, 1, Len(t) - 1))
    ELSE t

\* String.prototype.trim
trim(t) == trimEnd(trimStart(t))

RECURSIVE skipWs(_, _)
skipWs(t, i) ==
    IF i <= Len(t) /\ IsSpace(t[i]) THEN skipWs(t, i + 1) ELSE i

\* position of the first whitespace from position i on, Len(t) + 1 if none
nextSpace(t, i) ==
    IF \E k \in i..Len(t) : IsSpace(t[k])
    THEN CHOOSE k \in i..Len(t) :
             /\ IsSpace(t[k])
             /\ \A m \in i..(k - 1) : ~IsSpace(t[m])
    ELSE Len(t) + 1

\* the pieces of t from position i on, where a piece starts
RECURSIVE splitFrom(_, _)
splitFrom(t, i) ==
    LET j == nextSpace(t, i)
    IN IF j > Len(t) THEN <<SubSeq(t, i, Len(t))>>
       ELSE <<SubSeq(t, i, j - 1)>> \o splitFrom(t, skipWs(t, j))

\* String.prototype.split(/\s+/): the pieces between maximal runs of
\* whitespace, empty pieces at the ends included
split(t) == splitFrom(t, 1)

getWordCount(text) ==
    Len(SelectSeq(split(trim(text)), LAMBDA word : Len(word) > 0))

\* a text of n words, one blank between two words
Words(n) ==
    IF n = 0 THEN <<>>
    ELSE [i \in 1..(2 * n - 1) |-> IF i % 2 = 1 THEN "a" ELSE " "]

\* a text of WordCap + 1 words
OverCapText == Words(WordCap + 1)

\* the texts callers submit: one word, exactly the cap (with surrounding
\* blanks), one word over the cap
SubmitTexts ==
    {<<"a">>, <<" ">> \o Words(WordCap) \o <<" ">>, OverCapText}

\* the argument texts of the AI service
AiTexts == {<<"a">>}

Gradings == {"G1", "G2"}

FinalGradings == {"F1"}

RoundTypeSet == {"constructive", "cross-ex", "rebuttal", "closing"}

\* the round types and gradings direct callers pass
ApiRoundTypes == {"constructive", "closing"}

ApiGradings == Gradings

Reqs == 1..MaxReqs

(***************************************************************************)
(* State.                                                                  *)
(***************************************************************************)
VARIABLES
    sessions,   \* DebateManager.sessions: session id -> DebateSession
    reqs,       \* the HTTP requests in flight, one record per request slot
    now,        \* the wall clock read by new Date()
    last        \* the call or request step taken last and what it returned

vars == <<sessions, reqs, now, last>>

\* the session ids callers name: those of the store and one it never holds
SessionIdInputs == (DOMAIN sessions) \cup {MaxSessions + 1}

(***************************************************************************)
(* uuidv4(): an id no session / no round of the store carries yet.         *)
(***************************************************************************)
AllRoundIds(store) ==
    UNION {{store[s].rounds[i].id : i \in 1..Len(store[s].rounds)} :
              s \in DOMAIN store}

TotalRounds(store) ==
    LET RECURSIVE Sum(_)
        Sum(S) == IF S = {} THEN 0
                  ELSE LET s == CHOOSE x \in S : TRUE
                       IN Len(store[s].rounds) + Sum(S \ {s})
    IN Sum(DOMAIN store)

SetMax(S) == IF S = {} THEN 0 ELSE CHOOSE x \in S : \A y \in S : y <= x

uuidSession(store) == SetMax(DOMAIN store) + 1

uuidRound(store) == SetMax(AllRoundIds(store)) + 1

(***************************************************************************)
(* Results of the DebateManager methods: { success, message, newRound?,    *)
(* round? }.  newRound and roundId are 0 when the property is absent.      *)
(***************************************************************************)
Result(success, message, newRound, roundId) ==
    [success |-> success, message |-> message,
     newRound |-> newRound, roundId |-> roundId]

SessionNotFound == Result(FALSE, <<"Session not found">>, 0, 0)

RoundNotFound == Result(FALSE, <<"Round not found">>, 0, 0)

\* index of the first round with this id (Array.prototype.find), 0 if none
FindRound(rounds, roundId) ==
    IF \E i \in 1..Len(rounds) : rounds[i].id = roundId
    THEN CHOOSE i \in 1..Len(rounds) :
             /\ rounds[i].id = roundId
             /\ \A j \in 1..(i - 1) : rounds[j].id # roundId
    ELSE 0

(***************************************************************************)
(* DebateManager.  A session is kept with the fields the methods read or   *)
(* write after creation (currentRound, rounds, isComplete, finalGrading,   *)
(* createdAt, updatedAt); topic, refinedTopic and userSide are set once    *)
(* and only handed on to the AI service, and a round's timestamp is never  *)
(* read, so they are left out.                                             *)
(***************************************************************************)
\* createSession with a zero-based round counter
createSessionZeroBased(store, t) ==
    LET id == uuidSession(store)
        session == [currentRound |-> 0,
                    rounds |-> <<>>,
                    isComplete |-> FALSE,
                    finalGrading |-> NoGrading,
                    createdAt |-> t,
                    updatedAt |-> t]
    IN [sessions |-> store @@ (id :> session), id |-> id]

\* createSession that takes the first id again instead of a fresh one
createSessionFirstId(store, t) ==
    LET id == 1
        session == [currentRound |-> 1,
                    rounds |-> <<>>,
                    isComplete |-> FALSE,
                    finalGrading |-> NoGrading,
                    createdAt |-> t,
                    updatedAt |-> t]
    IN [sessions |-> (id :> session) @@ store, id |-> id]

createSession(store, t) ==
    LET id == uuidSession(store)
        session == [currentRound |-> 1,
                    rounds |-> <<>>,
                    isComplete |-> FALSE,
                    finalGrading |-> NoGrading,
                    createdAt |-> t,
                    updatedAt |-> t]
    IN [sessions |-> store @@ (id :> session), id |-> id]

getSession(store, sessionId) ==
    IF sessionId \in DOMAIN store THEN sessionId ELSE 0

validateWordCount(argument) ==
    LET wordCount == getWordCount(argument)
    IN IF wordCount > WordCap
       THEN Result(FALSE, <<"Response exceeds word cap of", WordCap,
                            "words. Current:", wordCount, "words.">>, 0, 0)
       ELSE Result(TRUE, <<"Response is within the word limit.">>, 0, 0)

addRound(store, sessionId, round, t) ==
    IF sessionId \notin DOMAIN store
    THEN [sessions |-> store, result |-> SessionNotFound]
    ELSE [sessions |->
              [store EXCEPT ![sessionId].rounds = Append(@, round),
                            ![sessionId].updatedAt = t],
          result |-> Result(TRUE, <<"Round added successfully">>, 0, 0)]

\* submitUserResponse that records the round before it validates the text
submitUserResponsePushFirst(store, sessionId, response, roundType, t) ==
    LET validation == validateWordCount(response)
        round == [id |-> uuidRound(store),
                  type |-> roundType,
                  userResponse |-> response,
                  aiResponse |-> Undefined,
                  grading |-> NoGrading]
        pushed == [store EXCEPT ![sessionId].rounds = Append(@, round),
                                ![sessionId].updatedAt = t]
    IN IF sessionId \notin DOMAIN store
       THEN [sessions |-> store, result |-> SessionNotFound]
       ELSE IF ~validation.success
       THEN [sessions |-> pushed, result |-> validation]
       ELSE [sessions |-> pushed,
             result |-> Result(TRUE, <<"Response submitted successfully">>,
                               0, round.id)]

submitUserResponse(store, sessionId, response, roundType, t) ==
    LET validation == validateWordCount(response)
        round == [id |-> uuidRound(store),
                  type |-> roundType,
                  userResponse |-> response,
                  aiResponse |-> Undefined,
                  grading |-> NoGrading]
    IN IF ~validation.success
       THEN [sessions |-> store, result |-> validation]
       ELSE IF sessionId \notin DOMAIN store
       THEN [sessions |-> store, result |-> SessionNotFound]
       ELSE [sessions |->
                 [store EXCEPT ![sessionId].rounds = Append(@, round),
                               ![sessionId].updatedAt = t],
             result |-> Result(TRUE, <<"Response submitted successfully">>,
                               0, round.id)]

\* addAIResponse that looks the round up through an optional chain, so a
\* missing session reads as a missing round
addAIResponseRoundFirst(store, sessionId, roundId, aiResponse, t) ==
    LET i == IF sessionId \in DOMAIN store
             THEN FindRound(store[sessionId].rounds, roundId)
             ELSE 0
    IN IF i = 0
       THEN [sessions |-> store, result |-> RoundNotFound]
       ELSE [sessions |->
                 [store EXCEPT
                      ![sessionId].rounds[i].aiResponse = aiResponse,
                      ![sessionId].updatedAt = t],
             result |-> Result(TRUE, <<"AI response added successfully">>,
                               0, 0)]

addAIResponse(store, sessionId, roundId, aiResponse, t) ==
    IF sessionId \notin DOMAIN store
    THEN [sessions |-> store, result |-> SessionNotFound]
    ELSE LET i == FindRound(store[sessionId].rounds, roundId)
         IN IF i = 0
            THEN [sessions |-> store, result |-> RoundNotFound]
            ELSE [sessions |->
                      [store EXCEPT
                           ![sessionId].rounds[i].aiResponse = aiResponse,
                           ![sessionId].updatedAt = t],
                  result |-> Result(TRUE,
                                    <<"AI response added successfully">>,
                                    0, 0)]

\* advanceRound that reopens the session whenever it moves to a next round
advanceRoundReopen(store, sessionId, t) ==
    IF sessionId \notin DOMAIN store
    THEN [sessions |-> store, result |-> SessionNotFound]
    ELSE IF store[sessionId].currentRound >= 4
    THEN [sessions |->
              [store EXCEPT ![sessionId].isComplete = TRUE,
                            ![sessionId].updatedAt = t],
          result |-> Result(TRUE, <<"Debate completed">>, 4, 0)]
    ELSE [sessions |->
              [store EXCEPT ![sessionId].currentRound = @ + 1,
                            ![sessionId].isComplete = FALSE,
                            ![sessionId].updatedAt = t],
          result |-> Result(TRUE,
                            <<"Advanced to round",
                              store[sessionId].currentRound + 1>>,
                            store[sessionId].currentRound + 1, 0)]

\* advanceRound with the terminal round tested by > instead of >=
advanceRoundOffByOne(store, sessionId, t) ==
    IF sessionId \notin DOMAIN store
    THEN [sessions |-> store, result |-> SessionNotFound]
    ELSE IF store[sessionId].currentRound > 4
    THEN [sessions |->
              [store EXCEPT ![sessionId].isComplete = TRUE,
                            ![sessionId].updatedAt = t],
          result |-> Result(TRUE, <<"Debate completed">>, 4, 0)]
    ELSE [sessions |->
              [store EXCEPT ![sessionId].currentRound = @ + 1,
                            ![sessionId].updatedAt = t],
          result |-> Result(TRUE,
                            <<"Advanced to round",
                              store[sessionId].currentRound + 1>>,
                            store[sessionId].currentRound + 1, 0)]

\* advanceRound over a store that keeps one round counter for all sessions
advanceRoundEverySession(store, sessionId, t) ==
    IF sessionId \notin DOMAIN store
    THEN [sessions |-> store, result |-> SessionNotFound]
    ELSE IF store[sessionId].currentRound >= 4
    THEN [sessions |->
              [s \in DOMAIN store |->
                  [store[s] EXCEPT !.isComplete = TRUE, !.updatedAt = t]],
          result |-> Result(TRUE, <<"Debate completed">>, 4, 0)]
    ELSE [sessions |->
              [s \in DOMAIN store |->
                  [store[s] EXCEPT
                       !.currentRound = store[sessionId].currentRound + 1,
                       !.updatedAt = t]],
          result |-> Result(TRUE,
                            <<"Advanced to round",
                              store[sessionId].currentRound + 1>>,
                            store[sessionId].currentRound + 1, 0)]

advanceRound(store, sessionId, t) ==
    IF sessionId \notin DOMAIN store
    THEN [sessions |-> store, result |-> SessionNotFound]
    ELSE IF store[sessionId].currentRound >= 4
    THEN [sessions |->
              [store EXCEPT ![sessionId].isComplete = TRUE,
                            ![sessionId].updatedAt = t],
          result |-> Result(TRUE, <<"Debate completed">>, 4, 0)]
    ELSE [sessions |->
              [store EXCEPT ![sessionId].currentRound = @ + 1,
                            ![sessionId].updatedAt = t],
          result |-> Result(TRUE,
                            <<"Advanced to round",
                              store[sessionId].currentRound + 1>>,
                            store[sessionId].currentRound + 1, 0)]

\* addGrading that leaves updatedAt as it was
addGradingKeepsUpdatedAt(store, sessionId, roundId, grading, t) ==
    IF sessionId \notin DOMAIN store
    THEN [sessions |-> store, result |-> SessionNotFound]
    ELSE LET i == FindRound(store[sessionId].rounds, roundId)
         IN IF i = 0
            THEN [sessions |-> store, result |-> RoundNotFound]
            ELSE [sessions |->
                      [store EXCEPT
                           ![sessionId].rounds[i].grading = grading],
                  result |-> Result(TRUE, <<"Grading added successfully">>,
                                    0, 0)]

addGrading(store, sessionId, roundId, grading, t) ==
    IF sessionId \notin DOMAIN store
    THEN [sessions |-> store, result |-> SessionNotFound]
    ELSE LET i == FindRound(store[sessionId].rounds, roundId)
         IN IF i = 0
            THEN [sessions |-> store, result |-> RoundNotFound]
            ELSE [sessions |->
                      [store EXCEPT
                           ![sessionId].rounds[i].grading = grading,
                           ![sessionId].updatedAt = t],
                  result |-> Result(TRUE, <<"Grading added successfully">>,
                                    0, 0)]

setFinalGrading(store, sessionId, finalGrading, t) ==
    IF sessionId \notin DOMAIN store
    THEN [sessions |-> store, result |-> SessionNotFound]
    ELSE [sessions |->
              [store EXCEPT ![sessionId].finalGrading = finalGrading,
                            ![sessionId].isComplete = TRUE,
                            ![sessionId].updatedAt = t],
          result |-> Result(TRUE, <<"Final grading set successfully">>,
                            0, 0)]

getCurrentRoundType(roundNumber) ==
    CASE roundNumber = 1 -> "constructive"
      [] roundNumber = 2 -> "cross-ex"
      [] roundNumber = 3 -> "rebuttal"
      [] roundNumber = 4 -> "closing"
      [] OTHER -> "constructive"

(***************************************************************************)
(* Initial state: an empty store, no request in flight.                    *)
(***************************************************************************)
IdleReq ==
    [pc |-> "idle", ep |-> "none", sid |-> 0, roundType |-> "none",
     roundId |-> 0, idx |-> 0]

NoResult == Result(TRUE, <<>>, 0, 0)

\* what the last step was: the method or endpoint, the session id and the
\* text it was called with, the HTTP status (0: none) and the result
Last(op, sid, arg, status, result) ==
    [op |-> op, sid |-> sid, arg |-> arg, status |-> status,
     result |-> result]

Init ==
    /\ sessions = <<>>
    /\ reqs = [r \in Reqs |-> IdleReq]
    /\ now = 0
    /\ last = Last("init", 0, Undefined, 0, NoResult)

\* time passes
Tick ==
    /\ now < MaxClock
    /\ now' = now + 1
    /\ last' = Last("tick", 0, Undefined, 0, NoResult)
    /\ UNCHANGED <<sessions, reqs>>

(***************************************************************************)
(* Direct calls of the public DebateManager methods.                       *)
(***************************************************************************)
\* the rounds a caller may hand to addRound
RoundInputs(store) ==
    [id : {1, uuidRound(store)},
     type : ApiRoundTypes,
     userResponse : {Undefined, <<"a">>},
     aiResponse : {Undefined},
     grading : {NoGrading}]

\* the round ids a caller may name: those of the store and a fresh one
RoundIdInputs(store) == AllRoundIds(store) \cup {uuidRound(store)}

Call(op, sid, arg, r) ==
    /\ sessions' = r.sessions
    /\ last' = Last(op, sid, arg, 0, r.result)
    /\ UNCHANGED <<reqs, now>>

CallCreateSession ==
    /\ Cardinality(DOMAIN sessions) < MaxSessions
    /\ LET r == createSession(sessions, now)
       IN /\ sessions' = r.sessions
          /\ last' = Last("createSession", r.id, Undefined, 0, NoResult)
    /\ UNCHANGED <<reqs, now>>

CallAddRound ==
    /\ TotalRounds(sessions) < MaxApiRounds
    /\ \E sid \in SessionIdInputs, round \in RoundInputs(sessions) :
           Call("addRound", sid, Undefined, addRound(sessions, sid, round, now))

CallSubmitUserResponse ==
    /\ TotalRounds(sessions) < MaxApiRounds
    /\ \E sid \in SessionIdInputs, response \in SubmitTexts,
          roundType \in ApiRoundTypes :
           Call("submitUserResponse", sid, response,
                submitUserResponse(sessions, sid, response, roundType, now))

CallAddAIResponse ==
    \E sid \in SessionIdInputs, roundId \in RoundIdInputs(sessions),
       aiResponse \in AiTexts :
        Call("addAIResponse", sid, aiResponse,
             addAIResponse(sessions, sid, roundId, aiResponse, now))

CallAdvanceRound ==
    \E sid \in SessionIdInputs :
        Call("advanceRound", sid, Undefined, advanceRound(sessions, sid, now))

CallAddGrading ==
    \E sid \in SessionIdInputs, roundId \in RoundIdInputs(sessions),
       grading \in ApiGradings :
        Call("addGrading", sid, Undefined,
             addGrading(sessions, sid, roundId, grading, now))

CallSetFinalGrading ==
    \E sid \in SessionIdInputs, finalGrading \in FinalGradings :
        Call("setFinalGrading", sid, Undefined,
             setFinalGrading(sessions, sid, finalGrading, now))

Next ==
    \/ CallCreateSession
    \/ CallAddRound
    \/ CallSubmitUserResponse
    \/ CallAddAIResponse
    \/ CallAdvanceRound
    \/ CallAddGrading
    \/ CallSetFinalGrading

Spec == Init /\ [][Next]_vars

\* the same calls while time passes
SpecClock == Init /\ [][Next \/ Tick]_vars

(***************************************************************************)
(* The HTTP endpoints.  A handler runs without interruption up to its next *)
(* await (the AI service); each action below is one such segment.          *)
(***************************************************************************)
\* request bodies: a missing text, a text within the cap, one over the cap
HttpTexts == {<<>>, <<"a">>, OverCapText}

\* what an argument generation resolves to: an argument, an empty argument,
\* or no argument at all (the call threw)
AiOutcomes == {<<"a">>, <<>>, Undefined}

\* what gradeResponse resolves to: a grading, or it throws
GradeOutcomes == Gradings \cup {"throw"}

\* index of the first round from position i on that the grading loop grades
\* (round.userResponse is truthy), 0 when the loop runs off the end
FirstGradable(rounds, i) ==
    IF \E j \in i..Len(rounds) : Truthy(rounds[j].userResponse)
    THEN CHOOSE j \in i..Len(rounds) :
             /\ Truthy(rounds[j].userResponse)
             /\ \A k \in i..(j - 1) : ~Truthy(rounds[k].userResponse)
    ELSE 0

\* a segment's outcome: the store, the request's next position, the report
Respond(store, op, sid, arg, status, result) ==
    [sessions |-> store, req |-> IdleReq,
     last |-> Last(op, sid, arg, status, result)]

Suspend(store, op, req, arg, result) ==
    [sessions |-> store, req |-> req,
     last |-> Last(op, req.sid, arg, 0, result)]

\* POST /api/debate/:sessionId/submit from advanceRound on: advance, and if
\* the debate is complete start grading every round
SubmitAdvance(store, req, arg, t) ==
    LET advanceResult == advanceRound(store, req.sid, t)
        updatedSession == advanceResult.sessions[req.sid]
        first == FirstGradable(updatedSession.rounds, 1)
    IN IF updatedSession.isComplete /\ first # 0
       THEN Suspend(advanceResult.sessions, "POST /submit",
                    [req EXCEPT !.pc = "grade", !.idx = first], arg,
                    advanceResult.result)
       ELSE Respond(advanceResult.sessions, "POST /submit", req.sid, arg,
                    200, advanceResult.result)

\* POST /api/submit-argument from advanceRound on
SubmitArgumentAdvance(store, req, arg, t) ==
    LET advanceResult == advanceRound(store, req.sid, t)
    IN Respond(advanceResult.sessions, "POST /submit-argument", req.sid,
               arg, 200, advanceResult.result)

\* POST /api/debate/:sessionId/submit up to the await of the AI argument
SubmitStart(store, sessionId, response, t) ==
    IF ~Truthy(response)
    THEN Respond(store, "POST /submit", sessionId, response, 400,
                 Result(FALSE, <<"Response is required and must be a string">>,
                        0, 0))
    ELSE IF getSession(store, sessionId) = 0
    THEN Respond(store, "POST /submit", sessionId, response, 404,
                 Result(FALSE, <<"Debate session not found">>, 0, 0))
    ELSE IF store[sessionId].isComplete
    THEN Respond(store, "POST /submit", sessionId, response, 400,
                 Result(FALSE, <<"Debate session is already complete">>,
                        0, 0))
    ELSE
      LET currentRoundType ==
              getCurrentRoundType(store[sessionId].currentRound)
          userResult == submitUserResponse(store, sessionId, response,
                                           currentRoundType, t)
          req == [pc |-> "ai", ep |-> "submit", sid |-> sessionId,
                  roundType |-> currentRoundType,
                  roundId |-> userResult.result.roundId, idx |-> 0]
      IN IF ~userResult.result.success
         THEN Respond(store, "POST /submit", sessionId, response, 400,
                      userResult.result)
         ELSE IF currentRoundType # "closing"
         THEN Suspend(userResult.sessions, "POST /submit", req, response,
                      userResult.result)
         ELSE SubmitAdvance(userResult.sessions, req, response, t)

\* roundTypes[session.currentRound - 1]
roundTypes == <<"constructive", "cross-ex", "rebuttal", "closing">>

\* POST /api/submit-argument up to the await of the AI argument
SubmitArgumentStart(store, sessionId, argument, t) ==
    IF ~Truthy(argument)
    THEN Respond(store, "POST /submit-argument", sessionId, argument, 400,
                 Result(FALSE, <<"Session ID and argument are required">>,
                        0, 0))
    ELSE IF getSession(store, sessionId) = 0
    THEN Respond(store, "POST /submit-argument", sessionId, argument, 404,
                 SessionNotFound)
    ELSE
      LET currentRoundType == roundTypes[store[sessionId].currentRound]
          userResult == submitUserResponse(store, sessionId, argument,
                                           currentRoundType, t)
          req == [pc |-> "ai", ep |-> "submit-argument", sid |-> sessionId,
                  roundType |-> currentRoundType,
                  roundId |-> userResult.result.roundId, idx |-> 0]
      IN IF ~userResult.result.success
         THEN Respond(store, "POST /submit-argument", sessionId, argument,
                      400, userResult.result)
         ELSE IF currentRoundType # "closing"
         THEN Suspend(userResult.sessions, "POST /submit-argument", req,
                      argument, userResult.result)
         ELSE SubmitArgumentAdvance(userResult.sessions, req, argument, t)

\* either submit endpoint attaching the AI argument to the round the session
\* recorded last instead of the round of its own submission
AiDoneLastRound(store, req, argument, t) ==
    LET rounds == store[req.sid].rounds
        aiAddResult == addAIResponse(store, req.sid, rounds[Len(rounds)].id,
                                     argument, t)
        after == IF Truthy(argument) THEN aiAddResult.sessions ELSE store
    IN IF req.ep = "submit"
       THEN SubmitAdvance(after, req, Undefined, t)
       ELSE SubmitArgumentAdvance(after, req, Undefined, t)

\* either submit endpoint once the AI argument has resolved
AiDone(store, req, argument, t) ==
    LET aiAddResult == addAIResponse(store, req.sid, req.roundId, argument, t)
        after == IF Truthy(argument) THEN aiAddResult.sessions ELSE store
    IN IF req.ep = "submit"
       THEN SubmitAdvance(after, req, Undefined, t)
       ELSE SubmitArgumentAdvance(after, req, Undefined, t)

\* the grading loop without its try / catch: a gradeResponse that throws
\* rejects the handler's promise and no response is ever sent
GradeDoneUncaught(store, req, outcome, t) ==
    LET round == store[req.sid].rounds[req.idx]
        graded == addGrading(store, req.sid, round.id, outcome, t)
        next == FirstGradable(graded.sessions[req.sid].rounds, req.idx + 1)
    IN IF outcome = "throw"
       THEN Suspend(store, "POST /submit", [req EXCEPT !.pc = "rejected"],
                    Undefined, NoResult)
       ELSE IF next # 0
       THEN Suspend(graded.sessions, "POST /submit",
                    [req EXCEPT !.idx = next], Undefined, graded.result)
       ELSE Respond(graded.sessions, "POST /submit", req.sid, Undefined, 200,
                    graded.result)

\* the grading loop once gradeResponse has resolved for the round at req.idx
GradeDone(store, req, outcome, t) ==
    LET round == store[req.sid].rounds[req.idx]
        graded == addGrading(store, req.sid, round.id, outcome, t)
        next == FirstGradable(graded.sessions[req.sid].rounds, req.idx + 1)
    IN IF outcome = "throw"
       THEN Respond(store, "POST /submit", req.sid, Undefined, 200,
                    NoResult)
       ELSE IF next # 0
       THEN Suspend(graded.sessions, "POST /submit",
                    [req EXCEPT !.idx = next], Undefined, graded.result)
       ELSE Respond(graded.sessions, "POST /submit", req.sid, Undefined, 200,
                    graded.result)

Segment(r, out) ==
    /\ sessions' = out.sessions
    /\ reqs' = [reqs EXCEPT ![r] = out.req]
    /\ last' = out.last
    /\ now' = now

\* POST /api/debate/create and POST /api/start-debate
HttpCreate ==
    /\ Cardinality(DOMAIN sessions) < MaxSessions
    /\ LET r == createSession(sessions, now)
       IN /\ sessions' = r.sessions
          /\ last' = Last("POST /create", r.id, Undefined, 200, NoResult)
    /\ UNCHANGED <<reqs, now>>

\* GET /api/debate/:sessionId and POST /api/ai-response
HttpGetSession ==
    /\ \E sid \in SessionIdInputs :
           last' = Last("GET /session", sid, Undefined,
                        IF getSession(sessions, sid) = 0 THEN 404 ELSE 200,
                        NoResult)
    /\ UNCHANGED <<sessions, reqs, now>>

HttpSubmit ==
    /\ TotalRounds(sessions) < MaxRounds
    /\ \E r \in Reqs, sid \in SessionIdInputs, response \in HttpTexts :
           /\ reqs[r].pc = "idle"
           /\ Segment(r, SubmitStart(sessions, sid, response, now))

HttpSubmitArgument ==
    /\ TotalRounds(sessions) < MaxRounds
    /\ \E r \in Reqs, sid \in SessionIdInputs, argument \in HttpTexts :
           /\ reqs[r].pc = "idle"
           /\ Segment(r, SubmitArgumentStart(sessions, sid, argument, now))

HttpAiDone ==
    \E r \in Reqs, argument \in AiOutcomes :
        /\ reqs[r].pc = "ai"
        /\ Segment(r, AiDone(sessions, reqs[r], argument, now))

HttpGradeDone ==
    \E r \in Reqs, outcome \in GradeOutcomes :
        /\ reqs[r].pc = "grade"
        /\ Segment(r, GradeDone(sessions, reqs[r], outcome, now))

NextHttp ==
    \/ HttpCreate
    \/ HttpGetSession
    \/ HttpSubmit
    \/ HttpSubmitArgument
    \/ HttpAiDone
    \/ HttpGradeDone

SpecHttp == Init /\ [][NextHttp]_vars

\* the remote call request r awaits resolves or fails
AiResolves(r) ==
    \E argument \in AiOutcomes :
        /\ reqs[r].pc = "ai"
        /\ Segment(r, AiDone(sessions, reqs[r], argument, now))

GradeResolves(r) ==
    \E outcome \in GradeOutcomes :
        /\ reqs[r].pc = "grade"
        /\ Segment(r, GradeDone(sessions, reqs[r], outcome, now))

\* one debate: a single session is created and the submit requests on it
\* interleave; every remote call eventually resolves or fails
HttpCreateFirst == DOMAIN sessions = {} /\ HttpCreate

NextDebate ==
    \/ HttpCreateFirst
    \/ HttpSubmit
    \/ HttpSubmitArgument
    \/ HttpAiDone
    \/ HttpGradeDone

SpecDebate ==
    /\ Init /\ [][NextDebate]_vars
    /\ \A r \in Reqs : WF_vars(AiResolves(r)) /\ WF_vars(GradeResolves(r))

(***************************************************************************)
(* The AI service (GeminiService) and enforceWordCap.  The remote model is *)
(* an input: it is not configured, or its call throws, or it hands back a  *)
(* text / a judge output of any content.  What the service does with that  *)
(* is computed here as the code computes it.                               *)
(***************************************************************************)
Chars == {"a", " ", "."}

RECURSIVE TextsOfLen(_)
TextsOfLen(n) ==
    IF n = 0 THEN {<<>>}
    ELSE {Append(t, c) : t \in TextsOfLen(n - 1), c \in Chars}

TextsUpTo(n) == UNION {TextsOfLen(k) : k \in 0..n}

\* typeof session.refinedTopic: POST /api/debate/create stores any truthy
\* JSON value, the other callers pass strings
Typeofs == {"string", "number"}

\* Array.prototype.join(' ')
RECURSIVE join(_)
join(words) ==
    IF words = <<>> THEN <<>>
    ELSE IF Len(words) = 1 THEN words[1]
    ELSE words[1] \o <<" ">> \o join(Tail(words))

\* Array.prototype.slice(0, n)
slice(words, n) ==
    SubSeq(words, 1, IF n < Len(words) THEN n ELSE Len(words))

\* String.prototype.lastIndexOf: 0-based, -1 when absent
lastIndexOf(t, c) ==
    LET at == {i \in 1..Len(t) : t[i] = c}
    IN IF at = {} THEN -1 ELSE SetMax(at) - 1

\* String.prototype.substring(0, end)
substring(t, end) == SubSeq(t, 1, end)

\* GeminiService.getWordCount
serviceWordCount(text) ==
    Len(SelectSeq(split(trim(text)), LAMBDA word : Len(word) > 0))

\* truncateToWordLimit without the slice: the text with the ellipsis
truncateToWordLimitNoSlice(text, wordLimit) ==
    LET words == split(trim(text))
    IN IF Len(words) <= wordLimit THEN text
       ELSE text \o <<".", ".", ".">>

\* lastPeriod > truncated.length * 0.8 is 5 * lastPeriod > 4 * length
truncateToWordLimit(text, wordLimit) ==
    LET words == split(trim(text))
        truncated == join(slice(words, wordLimit))
        lastPeriod == lastIndexOf(truncated, ".")
    IN IF Len(words) <= wordLimit THEN text
       ELSE IF 5 * lastPeriod > 4 * Len(truncated)
       THEN substring(truncated, lastPeriod + 1)
       ELSE truncated \o <<".", ".", ".">>

\* what an argument generation gives its caller: it threw, or it returned
\* { success, argument, error? }
Threw == [threw |-> TRUE, success |-> FALSE, argument |-> Undefined,
          usedFallback |-> FALSE]

Argument(argument, usedFallback) ==
    [threw |-> FALSE, success |-> TRUE, argument |-> argument,
     usedFallback |-> usedFallback]

\* a canned argument: its opening word (no two templates of one array open
\* alike), the words of the topic where the template interpolates
\* topic.toLowerCase().replace('should ', ''), and the rest of its words
Canned(opening, fixedWords, hasTopic, topicWords) ==
    <<opening, " ">>
        \o Words(fixedWords - 1 + IF hasTopic THEN topicWords ELSE 0)

Openings == <<"x", "y", "z">>

\* fallbackArguments[aiSide] for a gibberish / a coherent user argument: per
\* template the number of its words outside the topic and whether it
\* interpolates the topic
fallbackArguments(aiSide, isGibberish) ==
    IF aiSide = "pro"
    THEN IF isGibberish
         THEN <<<<39, TRUE>>, <<31, TRUE>>, <<29, TRUE>>>>
         ELSE <<<<27, TRUE>>, <<28, FALSE>>, <<27, TRUE>>>>
    ELSE IF isGibberish
         THEN <<<<28, TRUE>>, <<27, TRUE>>, <<29, TRUE>>>>
         ELSE <<<<23, TRUE>>, <<29, FALSE>>, <<24, TRUE>>>>

fallbackConstructiveArguments(aiSide) ==
    IF aiSide = "pro"
    THEN <<<<92, TRUE>>, <<88, TRUE>>, <<74, TRUE>>>>
    ELSE <<<<82, TRUE>>, <<68, TRUE>>, <<68, TRUE>>>>

\* the template arrays are built with topic.toLowerCase() before one entry
\* is picked by Math.random(); wordLimit is not read
\* generateFallbackCounterArgument that returns its template without the
\* error text
generateFallbackCounterArgumentUnmarked(in, aiSide) ==
    IF in.typeofTopic # "string" THEN Threw
    ELSE LET template ==
                 fallbackArguments(aiSide, in.isGibberish)[in.randomIndex + 1]
         IN Argument(Canned(Openings[in.randomIndex + 1], template[1],
                            template[2], in.topicWords), FALSE)

generateFallbackCounterArgument(in, aiSide) ==
    IF in.typeofTopic # "string" THEN Threw
    ELSE LET template ==
                 fallbackArguments(aiSide, in.isGibberish)[in.randomIndex + 1]
         IN Argument(Canned(Openings[in.randomIndex + 1], template[1],
                            template[2], in.topicWords), TRUE)

generateFallbackConstructiveArgument(in, aiSide) ==
    IF in.typeofTopic # "string" THEN Threw
    ELSE LET template ==
                 fallbackConstructiveArguments(aiSide)[in.randomIndex + 1]
         IN Argument(Canned(Openings[in.randomIndex + 1], template[1],
                            template[2], in.topicWords), TRUE)

\* generateCounterArgument(topic, userSide, userArgument, wordLimit)
generateCounterArgument(in) ==
    LET aiSide == IF in.side = "pro" THEN "con" ELSE "pro"
    IN IF ~in.configured
       THEN generateFallbackCounterArgument(in, aiSide)
       ELSE IF in.remote.kind = "throw"
       THEN generateFallbackCounterArgument(in, aiSide)
       ELSE LET counterArgument == trim(in.remote.text)
                wordCount == serviceWordCount(counterArgument)
            IN IF wordCount > in.wordLimit
               THEN Argument(truncateToWordLimit(counterArgument,
                                                 in.wordLimit), FALSE)
               ELSE Argument(counterArgument, FALSE)

\* generateConstructiveArgument(topic, aiSide, wordLimit)
generateConstructiveArgument(in) ==
    IF ~in.configured
    THEN generateFallbackConstructiveArgument(in, in.side)
    ELSE IF in.remote.kind = "throw"
    THEN generateFallbackConstructiveArgument(in, in.side)
    ELSE LET constructiveArgument == trim(in.remote.text)
             wordCount == serviceWordCount(constructiveArgument)
         IN IF wordCount > in.wordLimit
            THEN Argument(truncateToWordLimit(constructiveArgument,
                                              in.wordLimit), FALSE)
            ELSE Argument(constructiveArgument, FALSE)

(***************************************************************************)
(* Grading.  parsedResult.scores is a map from the criterion keys the      *)
(* judge wrote to the numbers it gave.                                     *)
(***************************************************************************)
\* scores.key: the number, or a falsy value (0) when the key is absent
Prop(scores, key) == IF key \in DOMAIN scores THEN scores[key] ELSE 0

\* a || b on numbers
JsOr(a, b) == IF a # 0 THEN a ELSE b

\* Math.round(num / den): the nearest integer, halves upwards
Round(num, den) == (2 * num + den) \div (2 * den)

\* RUBRICS[roundType].weight, the points of each category of GradingData
CategoryMax ==
    [constructive |-> 30, crossEx |-> 10, rebuttal |-> 35, closing |-> 25]

NoScores == [key \in {} |-> 0]

formatGradingResult(roundType, parsedResult) ==
    LET scores == IF parsedResult.hasScores THEN parsedResult.scores
                  ELSE NoScores
    IN CASE roundType = "constructive" ->
              LET clarityStructure ==
                      JsOr(Prop(scores, "claritystructure"),
                           JsOr(Prop(scores, "clarity"), 3))
                  evidenceReasoning ==
                      JsOr(Prop(scores, "evidencereasoning"),
                           JsOr(Prop(scores, "evidence"), 3))
                  framing == JsOr(Prop(scores, "framing"), 3)
                  subtotal == (clarityStructure * 2) + (evidenceReasoning * 2)
                                 + (framing * 1)
              IN [constructive |->
                     [clarityStructure |-> clarityStructure,
                      evidenceReasoning |-> evidenceReasoning,
                      framing |-> framing,
                      subtotal |-> Round(subtotal * 30, 15)]]
         [] roundType = "cross-ex" ->
              LET responsiveness == JsOr(Prop(scores, "responsiveness"), 3)
                  control == JsOr(Prop(scores, "control"), 3)
                  subtotal == responsiveness + control
              IN [crossEx |->
                     [responsiveness |-> responsiveness,
                      control |-> control,
                      subtotal |-> Round(subtotal * 10, 10)]]
         [] roundType = "rebuttal" ->
              LET refutation == JsOr(Prop(scores, "refutation"), 3)
                  defense == JsOr(Prop(scores, "defense"), 3)
                  efficiencyFocus ==
                      JsOr(Prop(scores, "efficiencyfocus"),
                           JsOr(Prop(scores, "efficiency"), 3))
                  subtotal == (refutation * 2) + (defense * 2)
                                 + (efficiencyFocus * 1)
              IN [rebuttal |->
                     [refutation |-> refutation,
                      defense |-> defense,
                      efficiencyFocus |-> efficiencyFocus,
                      subtotal |-> Round(subtotal * 35, 15)]]
         [] roundType = "closing" ->
              LET crystallization == JsOr(Prop(scores, "crystallization"), 3)
                  comparativeWeighing ==
                      JsOr(Prop(scores, "comparativeweighing"),
                           JsOr(Prop(scores, "weighing"), 3))
                  delivery == JsOr(Prop(scores, "delivery"), 3)
                  subtotal == (crystallization * 2) + (comparativeWeighing * 2)
                                 + (delivery * 1)
              IN [closing |->
                     [crystallization |-> crystallization,
                      comparativeWeighing |-> comparativeWeighing,
                      delivery |-> delivery,
                      subtotal |-> Round(subtotal * 25, 15)]]
         [] OTHER -> NoScores

\* what gradeResponse gives its caller: it threw, or it returned
\* { success, grading, error? }
GradeThrew == [threw |-> TRUE, success |-> FALSE, grading |-> NoScores,
               usedFallback |-> FALSE]

Graded(success, grading, usedFallback) ==
    [threw |-> FALSE, success |-> success, grading |-> grading,
     usedFallback |-> usedFallback]

generateFallbackGrading(roundType) ==
    CASE roundType = "constructive" ->
           Graded(TRUE, [constructive |->
                            [clarityStructure |-> 3, evidenceReasoning |-> 3,
                             framing |-> 3, subtotal |-> 18]], TRUE)
      [] roundType = "cross-ex" ->
           Graded(TRUE, [crossEx |->
                            [responsiveness |-> 3, control |-> 3,
                             subtotal |-> 6]], TRUE)
      [] roundType = "rebuttal" ->
           Graded(TRUE, [rebuttal |->
                            [refutation |-> 3, defense |-> 3,
                             efficiencyFocus |-> 3, subtotal |-> 21]], TRUE)
      [] roundType = "closing" ->
           Graded(TRUE, [closing |->
                            [crystallization |-> 3, comparativeWeighing |-> 3,
                             delivery |-> 3, subtotal |-> 15]], TRUE)
      [] OTHER -> Graded(FALSE, NoScores, TRUE)

\* topic.substring(...) in the first log call runs before the configuration
\* test and outside the try; JSON null makes formatGradingResult throw
\* inside the inner try
gradeResponse(in) ==
    IF in.typeofTopic # "string" THEN GradeThrew
    ELSE IF ~in.configured THEN generateFallbackGrading(in.roundType)
    ELSE IF in.remote.kind \in {"throw", "unparsable", "null"}
    THEN generateFallbackGrading(in.roundType)
    ELSE Graded(TRUE, formatGradingResult(in.roundType, in.remote), FALSE)

(***************************************************************************)
(* Topic validation.  A topic is the facts the fallback rules read off it. *)
(***************************************************************************)
generateFallbackTopicValidation(topic) ==
    [threw |-> FALSE,
     valid |-> /\ topic.isValidLength
               /\ topic.hasMultipleWords
               /\ (topic.isQuestion \/ topic.hasControversialKeywords),
     usedFallback |-> TRUE]

\* the remote verdict counts when parsedResult.is_valid is a boolean
validateTopic(in) ==
    IF ~in.configured THEN generateFallbackTopicValidation(in.topic)
    ELSE IF in.remote.kind \in {"throw", "unparsable", "null"}
    THEN generateFallbackTopicValidation(in.topic)
    ELSE IF in.remote.is_valid \in {"true", "false"}
    THEN [threw |-> FALSE, valid |-> in.remote.is_valid = "true",
          usedFallback |-> FALSE]
    ELSE generateFallbackTopicValidation(in.topic)

(***************************************************************************)
(* enforceWordCap(input, maxWords).                                        *)
(***************************************************************************)
enforceWordCap(input, maxWords) ==
    LET words == split(input)
        wordCount == Len(words)
    IN IF wordCount <= maxWords
       THEN [truncated |-> input, violations |-> 0]
       ELSE [truncated |-> join(slice(words, maxWords)),
             violations |-> wordCount - maxWords]

(***************************************************************************)
(* Calls of the service.  The initial state holds the arguments of one     *)
(* call and the state of the remote model; the call is then made once.     *)
(***************************************************************************)
\* the texts the remote model returns
RemoteTexts == TextsUpTo(MaxTextLen)

WordLimits == 1..MaxWordLimit

\* Math.floor(Math.random() * 3)
RandomIndexes == 0..2

RemoteThrows == [kind |-> "throw", text |-> <<>>]

RemoteText(text) == [kind |-> "text", text |-> text]

\* the number of words of topic.toLowerCase().replace('should ', '')
TopicWordCounts == 1..MaxTopicWords

Sides == {"pro", "con"}

\* every remote text with a configured model, and every way of failing with
\* every topic, side and finding of isArgumentGibberish(userArgument)
GenerateInputs ==
    [for : {"generate"}, configured : {TRUE}, typeofTopic : {"string"},
     topicWords : {1}, side : {"pro"}, isGibberish : {FALSE},
     remote : {RemoteText(t) : t \in RemoteTexts},
     wordLimit : WordLimits, randomIndex : {0}]
    \cup
    [for : {"generate"}, configured : BOOLEAN, typeofTopic : Typeofs,
     topicWords : TopicWordCounts, side : Sides, isGibberish : BOOLEAN,
     remote : {RemoteThrows} \cup {RemoteText(t) : t \in TextsUpTo(1)},
     wordLimit : WordLimits, randomIndex : RandomIndexes]

\* the numbers the remote judge writes; it is asked for 0..5
JudgeScores == (-1)..MaxJudgeScore

\* the keys the judge uses: the criterion names of the prompt, or the short
\* names formatGradingResult also accepts
ScoresFor(roundType, short, v) ==
    CASE roundType = "constructive" ->
           IF short
           THEN [clarity |-> v[1], evidence |-> v[2], framing |-> v[3]]
           ELSE [claritystructure |-> v[1], evidencereasoning |-> v[2],
                 framing |-> v[3]]
      [] roundType = "cross-ex" ->
           [responsiveness |-> v[1], control |-> v[2]]
      [] roundType = "rebuttal" ->
           IF short
           THEN [refutation |-> v[1], defense |-> v[2], efficiency |-> v[3]]
           ELSE [refutation |-> v[1], defense |-> v[2],
                 efficiencyfocus |-> v[3]]
      [] OTHER ->
           IF short
           THEN [crystallization |-> v[1], weighing |-> v[2],
                 delivery |-> v[3]]
           ELSE [crystallization |-> v[1], comparativeweighing |-> v[2],
                 delivery |-> v[3]]

\* the call throws, the text is not JSON, the JSON is null, the JSON has no
\* scores, or it has scores
JudgeOutputs(roundType) ==
    {[kind |-> k, hasScores |-> FALSE, scores |-> NoScores] :
        k \in {"throw", "unparsable", "null", "json"}}
    \cup
    {[kind |-> "json", hasScores |-> TRUE,
      scores |-> ScoresFor(roundType, short, v)] :
        short \in BOOLEAN, v \in JudgeScores \X JudgeScores \X JudgeScores}

GradeInputs ==
    UNION {[for : {"grade"}, configured : BOOLEAN, typeofTopic : Typeofs,
            roundType : {roundType}, remote : JudgeOutputs(roundType)] :
              roundType \in RoundTypeSet}

TopicFacts ==
    [isValidLength : BOOLEAN, hasMultipleWords : BOOLEAN,
     isQuestion : BOOLEAN, hasControversialKeywords : BOOLEAN]

\* is_valid of the parsed verdict: a boolean, or anything else
ValidatorOutputs ==
    [kind : {"throw", "unparsable", "null"}, is_valid : {"other"}]
    \cup [kind : {"json"}, is_valid : {"true", "false", "other"}]

ValidateInputs ==
    [for : {"validateTopic"}, configured : BOOLEAN, topic : TopicFacts,
     remote : ValidatorOutputs]

WordCapInputs ==
    [for : {"enforceWordCap"}, input : TextsUpTo(MaxInputLen),
     maxWords : 0..MaxWordLimit]

Input(in) == Last("input", 0, in, 0, NoResult)

InitService ==
    /\ sessions = <<>>
    /\ reqs = [r \in Reqs |-> IdleReq]
    /\ now = 0
    /\ \/ \E in \in GenerateInputs : last = Input(in)
       \/ \E in \in GradeInputs : last = Input(in)
       \/ \E in \in ValidateInputs : last = Input(in)
       \/ \E in \in WordCapInputs : last = Input(in)

ServiceCall(for, op, result) ==
    /\ last.op = "input"
    /\ last.arg.for = for
    /\ last' = Last(op, 0, last.arg, 0, result)
    /\ UNCHANGED <<sessions, reqs, now>>

CallValidateTopic ==
    /\ last.op = "input" /\ last.arg.for = "validateTopic"
    /\ ServiceCall("validateTopic", "validateTopic", validateTopic(last.arg))

CallGenerateCounterArgument ==
    /\ last.op = "input" /\ last.arg.for = "generate"
    /\ ServiceCall("generate", "generateCounterArgument",
                   generateCounterArgument(last.arg))

CallGenerateConstructiveArgument ==
    /\ last.op = "input" /\ last.arg.for = "generate"
    /\ ServiceCall("generate", "generateConstructiveArgument",
                   generateConstructiveArgument(last.arg))

CallGradeResponse ==
    /\ last.op = "input" /\ last.arg.for = "grade"
    /\ ServiceCall("grade", "gradeResponse", gradeResponse(last.arg))

CallEnforceWordCap ==
    /\ last.op = "input" /\ last.arg.for = "enforceWordCap"
    /\ ServiceCall("enforceWordCap", "enforceWordCap",
                   enforceWordCap(last.arg.input, last.arg.maxWords))

NextService ==
    \/ CallValidateTopic
    \/ CallGenerateCounterArgument
    \/ CallGenerateConstructiveArgument
    \/ CallGradeResponse
    \/ CallEnforceWordCap

SpecService == InitService /\ [][NextService]_vars

(***************************************************************************)
(* Properties.                                                             *)
(***************************************************************************)
MutationOps ==
    {"addRound", "submitUserResponse", "addAIResponse", "addGrading",
     "setFinalGrading", "advanceRound"}

\* the step just taken was a call of op on a session of the store
Acted(op) == last.op = op /\ last.sid \in DOMAIN sessions

\* C1: on an existing session advanceRound with currentRound < 4 adds exactly
\* one to currentRound and leaves isComplete and the rounds alone; with
\* currentRound = 4 it sets isComplete, keeps currentRound at 4 and reports
\* newRound 4.
C1_AdvanceRound ==
    [][(last'.op = "advanceRound" /\ last'.sid \in DOMAIN sessions) =>
          LET before == sessions[last'.sid]
              after == sessions'[last'.sid]
          IN /\ before.currentRound < 4 =>
                   /\ after.currentRound = before.currentRound + 1
                   /\ after.isComplete = before.isComplete
                   /\ after.rounds = before.rounds
             /\ before.currentRound = 4 =>
                   /\ after.isComplete
                   /\ after.currentRound = 4
                   /\ last'.result.newRound = 4]_vars

\* advanceRound has just completed a session from round 4
C1_Witness ==
    /\ Acted("advanceRound")
    /\ last.result.newRound = 4
    /\ sessions[last.sid].isComplete
    /\ sessions[last.sid].currentRound = 4
    /\ sessions[last.sid].finalGrading = NoGrading

\* C2: currentRound of every session is in 1..4 in every reachable state and
\* no step decreases it.
C2_CurrentRoundRange ==
    /\ [](\A s \in DOMAIN sessions : sessions[s].currentRound \in 1..4)
    /\ [][\A s \in DOMAIN sessions :
              sessions'[s].currentRound >= sessions[s].currentRound]_vars

\* advanceRound has just moved a session into round 4
C2_Witness ==
    /\ Acted("advanceRound")
    /\ last.result.message = <<"Advanced to round", 4>>
    /\ sessions[last.sid].currentRound = 4

\* C3: isComplete is monotonic: no step takes a session's isComplete from
\* true back to false.
C3_IsCompleteMonotonic ==
    [][\A s \in DOMAIN sessions :
           sessions[s].isComplete => sessions'[s].isComplete]_vars

\* setFinalGrading has just acted on a session that advanceRound completed
C3_Witness ==
    /\ Acted("setFinalGrading")
    /\ sessions[last.sid].isComplete
    /\ sessions[last.sid].currentRound = 4

RoundsOfType(rounds, type) ==
    {i \in 1..Len(rounds) : rounds[i].type = type}

\* C4: rounds are strictly sequential, one round per submission: for every
\* round number a session has passed, exactly one round of that number's type
\* is recorded, whatever the interleaving of the submit requests.
C4_OneRoundPerPassedRound ==
    \A s \in DOMAIN sessions :
        \A k \in 1..(sessions[s].currentRound - 1) :
            Cardinality(RoundsOfType(sessions[s].rounds,
                                     getCurrentRoundType(k))) = 1

\* C5: rounds.length <= currentRound in every reachable state of every
\* session.
C5_RoundsWithinCurrentRound ==
    \A s \in DOMAIN sessions :
        Len(sessions[s].rounds) <= sessions[s].currentRound

\* C6: once a session is complete no step appends a round to it.
C6_NoRoundAfterComplete ==
    [][\A s \in DOMAIN sessions :
           sessions[s].isComplete =>
               Len(sessions'[s].rounds) = Len(sessions[s].rounds)]_vars

\* C7: a complete session is in round 4, in every reachable state.
C7_CompleteAtRoundFour ==
    \A s \in DOMAIN sessions :
        sessions[s].isComplete => sessions[s].currentRound = 4

\* C8: advanceRound on a session that is already complete leaves currentRound
\* at 4, isComplete true and the rounds unchanged, and reports completion
\* again.
C8_AdvanceRoundIdempotent ==
    [][(/\ last'.op = "advanceRound"
        /\ last'.sid \in DOMAIN sessions
        /\ sessions[last'.sid].isComplete) =>
          /\ sessions'[last'.sid].currentRound = 4
          /\ sessions'[last'.sid].isComplete
          /\ sessions'[last'.sid].rounds = sessions[last'.sid].rounds
          /\ last'.result = Result(TRUE, <<"Debate completed">>, 4, 0)]_vars

\* the outcome of an endpoint's first segment rejects the request: nothing is
\* stored, no AI call is awaited
Rejected(out) ==
    /\ out.sessions = sessions
    /\ out.req = IdleReq
    /\ ~out.last.result.success
    /\ out.last.status \in {400, 404}

\* C9: a submission of more than wordCap words is rejected before it is
\* recorded: submitUserResponse returns success = false and leaves the store
\* (rounds, currentRound, isComplete, updatedAt) as it was, and both submit
\* endpoints answer with a failure without storing anything or awaiting the AI.
C9_OverCapRejected ==
    /\ [][(/\ last'.op = "submitUserResponse"
           /\ getWordCount(last'.arg) > WordCap) =>
             /\ ~last'.result.success
             /\ sessions' = sessions]_vars
    /\ [](\A sid \in SessionIdInputs, text \in HttpTexts :
              getWordCount(text) > WordCap =>
                  /\ Rejected(SubmitStart(sessions, sid, text, now))
                  /\ Rejected(SubmitArgumentStart(sessions, sid, text, now)))

\* an over-cap text has just been submitted to a session last updated at an
\* earlier time
C9_Witness ==
    /\ Acted("submitUserResponse")
    /\ last.arg = OverCapText
    /\ ~last.result.success
    /\ sessions[last.sid].updatedAt < now
    /\ sessions[last.sid].rounds = <<>>

SubmitOps == {"POST /submit", "POST /submit-argument"}

ServiceOps ==
    {"validateTopic", "generateCounterArgument",
     "generateConstructiveArgument", "gradeResponse"}

GenerateOps == {"generateCounterArgument", "generateConstructiveArgument"}

\* the session has gone through its four rounds one after the other: it
\* holds exactly one round of each type, in order
FourRounds(session) ==
    /\ Len(session.rounds) = 4
    /\ \A i \in 1..4 : /\ session.rounds[i].type = roundTypes[i]
                       /\ Truthy(session.rounds[i].userResponse)

\* C11: after all four rounds of a session have been completed through the
\* submit-round-response operation (the request that submitted the closing
\* round has returned), the session has isComplete = true and a
\* finalGrading; finalScore, the sum of the four subtotals in 0..100, is a
\* field of that finalGrading.
C11_FinalGradingOnCompletion ==
    [][(/\ last'.op = "POST /submit"
        /\ last'.status = 200
        /\ last'.sid \in DOMAIN sessions
        /\ FourRounds(sessions'[last'.sid])
        /\ \A r \in Reqs : reqs'[r].pc = "idle") =>
           /\ sessions'[last'.sid].isComplete
           /\ sessions'[last'.sid].finalGrading # NoGrading]_vars

\* the judge's scores are all in 0..5
ScoresInRange(scores) == \A key \in DOMAIN scores : scores[key] \in 0..5

\* C12: every subtotal formatGradingResult computes lies in 0..category
\* maximum (30, 10, 35, 25) for every combination of judge scores in 0..5.
C12_SubtotalWithinMax ==
    (/\ last.op = "gradeResponse"
     /\ ~last.result.threw
     /\ ~last.result.usedFallback
     /\ ScoresInRange(last.arg.remote.scores)) =>
        \A category \in DOMAIN last.result.grading :
            last.result.grading[category].subtotal
                \in 0..CategoryMax[category]

\* C13: every sub-criterion score gradeResponse returns lies in 0..5,
\* whatever numbers the judge's parsed output contains.
C13_CriterionScoresInRange ==
    (last.op = "gradeResponse" /\ ~last.result.threw) =>
        \A category \in DOMAIN last.result.grading :
            \A criterion \in DOMAIN last.result.grading[category]
                                \ {"subtotal"} :
                last.result.grading[category][criterion] \in 0..5

\* the judge's output that scores every criterion of the rubric with n
AllScored(roundType, n) ==
    [kind |-> "json", hasScores |-> TRUE,
     scores |-> ScoresFor(roundType, FALSE, <<n, n, n>>)]

\* C14: when the remote judge is unavailable the fallback grading of each
\* round type gives 3 to every criterion of the rubric, and its subtotal is
\* the one formatGradingResult computes from criterion scores that are all 3.
C14_FallbackEqualsAggregation ==
    (/\ last.op = "gradeResponse"
     /\ ~last.result.threw
     /\ last.result.usedFallback) =>
        /\ last.result.success
        /\ last.result.grading
              = formatGradingResult(last.arg.roundType,
                                    AllScored(last.arg.roundType, 3))
        /\ \A category \in DOMAIN last.result.grading :
              \A criterion \in DOMAIN last.result.grading[category]
                                  \ {"subtotal"} :
                  last.result.grading[category][criterion] = 3

\* the remote model is not configured, its call throws, or its output does
\* not parse
RemoteFailed(in) ==
    \/ ~in.configured
    \/ in.remote.kind \in {"throw", "unparsable", "null"}

\* C15: whenever the remote model is not configured, the remote call throws
\* or its output fails to parse, validateTopic, generateCounterArgument,
\* generateConstructiveArgument and gradeResponse return the fallback result
\* (a verdict / success) and do not throw.
C15_FailuresBecomeFallback ==
    (last.op \in ServiceOps /\ RemoteFailed(last.arg)) =>
        /\ ~last.result.threw
        /\ last.result.usedFallback
        /\ (last.op # "validateTopic" => last.result.success)

\* the round of session s that carries this id (a set of at most one round)
RoundsWithId(store, s, id) ==
    {store[s].rounds[i] : i \in {j \in 1..Len(store[s].rounds) :
                                     store[s].rounds[j].id = id}}

\* the round number of a round type: the index of the type in roundTypes
RoundNumber(roundType) == CHOOSE k \in 1..4 : roundTypes[k] = roundType

\* C16: when a successful submit request of round 1, 2 or 3 is through with
\* its AI generation, the round it created has a non-empty aiResponse and
\* currentRound is one past the round it was submitted in; a step that
\* records a closing round starts no AI generation, and a closing round
\* never has an aiResponse.
C16_AiResponseExceptClosing ==
    /\ [][\A r \in Reqs :
            (reqs[r].pc = "ai" /\ reqs'[r].pc # "ai") =>
                /\ \A round \in RoundsWithId(sessions', reqs[r].sid,
                                             reqs[r].roundId) :
                       Truthy(round.aiResponse)
                /\ sessions'[reqs[r].sid].currentRound
                      = RoundNumber(reqs[r].roundType) + 1]_vars
    /\ [][\A s \in DOMAIN sessions :
            (/\ Len(sessions'[s].rounds) = Len(sessions[s].rounds) + 1
             /\ sessions'[s].rounds[Len(sessions'[s].rounds)].type
                   = "closing") =>
                \A r \in Reqs : reqs[r].pc = "idle" => reqs'[r].pc # "ai"]_vars
    /\ [](\A s \in DOMAIN sessions :
            \A i \in 1..Len(sessions[s].rounds) :
                sessions[s].rounds[i].type = "closing" =>
                    sessions[s].rounds[i].aiResponse = Undefined)

\* every round of the session that has a userResponse has a grading
AllGraded(session) ==
    \A i \in 1..Len(session.rounds) :
        Truthy(session.rounds[i].userResponse) =>
            session.rounds[i].grading # NoGrading

\* C17: when the submit request that makes a session complete returns (the
\* session having gone through its four rounds in order), every round of
\* the session that has a userResponse has a grading; and no round has a
\* grading before its session is complete.
C17_GradingPassOnCompletion ==
    /\ [][\A r \in Reqs :
            (/\ last'.op \in SubmitOps
             /\ last'.status = 200
             /\ reqs' = [reqs EXCEPT ![r] = IdleReq]
             /\ last'.sid \in DOMAIN sessions
             /\ sessions'[last'.sid].isComplete
             /\ FourRounds(sessions'[last'.sid])
             /\ (~sessions[last'.sid].isComplete \/ reqs[r].pc = "grade")) =>
                AllGraded(sessions'[last'.sid])]_vars
    /\ [](\A s \in DOMAIN sessions :
            \A i \in 1..Len(sessions[s].rounds) :
                sessions[s].rounds[i].grading # NoGrading =>
                    sessions[s].isComplete)

\* the text the remote model returned has more words than the limit
OverLimit(in) == serviceWordCount(in.remote.text) > in.wordLimit

\* the call went to the remote model and the model returned a text
RemoteAnswered(in) == in.configured /\ in.remote.kind = "text"

\* C18: for every text the remote model returns and every positive word
\* limit, the argument generateCounterArgument and
\* generateConstructiveArgument return has at most wordLimit words, and a
\* text already within the limit is returned unchanged.
C18_TruncatedUnchanged ==
    (last.op \in GenerateOps /\ RemoteAnswered(last.arg)) =>
        /\ serviceWordCount(last.result.argument) <= last.arg.wordLimit
        /\ (~OverLimit(last.arg) =>
               last.result.argument = last.arg.remote.text)

\* C18 as amended: the argument has at most wordLimit words, and a text
\* already within the limit is returned with nothing but its leading and
\* trailing whitespace removed.
C18_TruncatedTrimmed ==
    (last.op \in GenerateOps /\ RemoteAnswered(last.arg)) =>
        /\ ~last.result.threw
        /\ serviceWordCount(last.result.argument) <= last.arg.wordLimit
        /\ (~OverLimit(last.arg) =>
               last.result.argument = trim(last.arg.remote.text))

\* a remote text of four words has just been cut to its first three, ending
\* at the sentence boundary
C18_Witness ==
    /\ last.op = "generateCounterArgument"
    /\ RemoteAnswered(last.arg)
    /\ last.arg.wordLimit = 3
    /\ last.arg.remote.text = <<"a", " ", "a", " ", "a", ".", " ", "a">>
    /\ last.result.argument = <<"a", " ", "a", " ", "a", ".">>

\* C19: for all texts T (leading, trailing and repeated whitespace and the
\* empty text included) and all limits L, enforceWordCap(T, L).violations is
\* max(0, wordCount(T) - L), wordCount counting the non-empty tokens.
C19_ViolationsCount ==
    last.op = "enforceWordCap" =>
        last.result.violations
            = IF getWordCount(last.arg.input) > last.arg.maxWords
              THEN getWordCount(last.arg.input) - last.arg.maxWords
              ELSE 0

\* C20: in every state reached through the submit endpoints the round at
\* position i of a session's rounds has the type of round i: constructive,
\* cross-ex, rebuttal, closing for i = 1, 2, 3, 4.
C20_TypeByPosition ==
    \A s \in DOMAIN sessions :
        \A i \in 1..Len(sessions[s].rounds) :
            i <= 4 => sessions[s].rounds[i].type = roundTypes[i]

\* C21: createSession stores and returns a session whose id no session of the
\* store carried before, with currentRound = 1, no rounds, isComplete false
\* and no finalGrading, and it leaves every session stored before unchanged.
C21_CreateSession ==
    [][last'.op = "createSession" =>
          /\ last'.sid \notin DOMAIN sessions
          /\ DOMAIN sessions' = DOMAIN sessions \cup {last'.sid}
          /\ sessions'[last'.sid].currentRound = 1
          /\ sessions'[last'.sid].rounds = <<>>
          /\ ~sessions'[last'.sid].isComplete
          /\ sessions'[last'.sid].finalGrading = NoGrading
          /\ \A s \in DOMAIN sessions : sessions'[s] = sessions[s]]_vars

\* createSession has just added a second session to a store whose first
\* session has a round and has moved on
C21_Witness ==
    /\ last.op = "createSession"
    /\ last.sid \in DOMAIN sessions
    /\ sessions[last.sid].rounds = <<>>
    /\ \E s \in DOMAIN sessions :
           /\ s # last.sid
           /\ Len(sessions[s].rounds) > 0
           /\ sessions[s].currentRound > 1

\* the call the last step made, made on another input
Generate(op, in) ==
    IF op = "generateCounterArgument" THEN generateCounterArgument(in)
    ELSE generateConstructiveArgument(in)

\* C22: the argument fallback is deterministic: while the remote model is
\* unavailable, a second call of generateCounterArgument (or of
\* generateConstructiveArgument) with the same topic, side, prior argument
\* and word limit returns the same argument text, whatever Math.random()
\* yields in it.
C22_FallbackDeterministic ==
    (last.op \in GenerateOps /\ RemoteFailed(last.arg)
     /\ ~last.result.threw) =>
        \A randomIndex \in RandomIndexes :
            Generate(last.op,
                     [last.arg EXCEPT !.randomIndex = randomIndex]).argument
                = last.result.argument

\* C23: for every topic and every wordLimit, the argument the fallback paths
\* of generateCounterArgument and generateConstructiveArgument return has at
\* most wordLimit words.
C23_FallbackWithinLimit ==
    (last.op \in GenerateOps /\ last.result.usedFallback) =>
        serviceWordCount(last.result.argument) <= last.arg.wordLimit

\* the call took a fallback path: no model is configured, the remote call
\* threw, its text is not JSON or is JSON null, or (validateTopic) the
\* verdict has no boolean is_valid
FallbackPath(op, in) ==
    \/ ~in.configured
    \/ in.remote.kind \in {"throw", "unparsable", "null"}
    \/ op = "validateTopic" /\ in.remote.is_valid \notin {"true", "false"}

\* C24: every result a fallback path of generateCounterArgument,
\* generateConstructiveArgument, gradeResponse or validateTopic produces
\* carries the fallback marker (the error text / usedFallback = true), and
\* no result produced from the remote model's response carries it.
C24_FallbackMarked ==
    (last.op \in ServiceOps /\ ~last.result.threw) =>
        (last.result.usedFallback <=> FallbackPath(last.op, last.arg))

\* gradeResponse has just answered a remote output of JSON null with the
\* marked fallback grading
C24_Witness ==
    /\ last.op = "gradeResponse"
    /\ last.arg.configured
    /\ last.arg.remote.kind = "null"
    /\ ~last.result.threw
    /\ last.result.success
    /\ last.result.usedFallback

\* C25: every successful addRound, submitUserResponse, addAIResponse,
\* addGrading, setFinalGrading and advanceRound sets the session's updatedAt
\* to the clock value at the call; as the clock never goes back, no step
\* decreases updatedAt, and updatedAt >= createdAt in every reachable state.
C25_UpdatedAt ==
    /\ [][(last'.op \in MutationOps /\ last'.result.success) =>
              sessions'[last'.sid].updatedAt = now]_vars
    /\ [][\A s \in DOMAIN sessions :
              sessions'[s].updatedAt >= sessions[s].updatedAt]_vars
    /\ [](\A s \in DOMAIN sessions :
              sessions[s].updatedAt >= sessions[s].createdAt)

\* addGrading has just graded, after the clock moved on, a round of a
\* session created before
C25_Witness ==
    /\ Acted("addGrading")
    /\ last.result.success
    /\ now > 0
    /\ sessions[last.sid].createdAt = 0
    /\ sessions[last.sid].updatedAt = now

\* C26: a round's grading, once attached, is immutable: no step changes the
\* grading of a round that has one.
C26_GradingImmutable ==
    [][\A s \in DOMAIN sessions :
           \A i \in 1..Len(sessions[s].rounds) :
               sessions[s].rounds[i].grading # NoGrading =>
                   sessions'[s].rounds[i].grading
                       = sessions[s].rounds[i].grading]_vars

\* C27: sessions are isolated: a DebateManager operation or a step of an
\* HTTP request addressed to one session id leaves every other session of
\* the store as it was, whatever requests are in flight on other sessions.
C27_SessionsIsolated ==
    [][\A s \in DOMAIN sessions :
           s # last'.sid => sessions'[s] = sessions[s]]_vars

\* a submit request has just recorded a round in one session while a
\* request on another session, which has a round too, awaits its AI argument
C27_Witness ==
    /\ last.op \in SubmitOps
    /\ last.sid \in DOMAIN sessions
    /\ last.result.roundId # 0
    /\ \E r \in Reqs :
           /\ reqs[r].pc = "ai"
           /\ reqs[r].sid # last.sid
           /\ Len(sessions[reqs[r].sid].rounds) > 0

\* C28: an AI response is attached only to the round created by the same
\* submit request: the round id a request carries to its AI generation is
\* the id of the round its own submitUserResponse has just added, a step
\* changes a round's aiResponse only when a request resumes from its AI
\* generation carrying that round's id, and no step changes the
\* userResponse of a round, whatever the interleaving of the requests.
C28_AiResponseToOwnRound ==
    /\ [][\A r \in Reqs :
              (reqs[r].pc = "idle" /\ reqs'[r].pc = "ai") =>
                  /\ reqs'[r].roundId \notin AllRoundIds(sessions)
                  /\ RoundsWithId(sessions', reqs'[r].sid, reqs'[r].roundId)
                         # {}]_vars
    /\ [][\A s \in DOMAIN sessions :
              \A i \in 1..Len(sessions[s].rounds) :
                  /\ sessions'[s].rounds[i].userResponse
                         = sessions[s].rounds[i].userResponse
                  /\ sessions'[s].rounds[i].aiResponse
                         # sessions[s].rounds[i].aiResponse =>
                         \E r \in Reqs :
                             /\ reqs[r].pc = "ai"
                             /\ reqs'[r] # reqs[r]
                             /\ reqs[r].sid = s
                             /\ reqs[r].roundId
                                    = sessions[s].rounds[i].id]_vars

\* of two requests in flight on one session, the one that submitted first
\* has just had its AI argument attached to its round, the first of the
\* two, while the other still awaits its argument
C28_Witness ==
    /\ last.op \in SubmitOps
    /\ last.sid \in DOMAIN sessions
    /\ Len(sessions[last.sid].rounds) = 2
    /\ Truthy(sessions[last.sid].rounds[1].aiResponse)
    /\ sessions[last.sid].rounds[2].aiResponse = Undefined
    /\ \E r \in Reqs :
           /\ reqs[r].pc = "ai"
           /\ reqs[r].sid = last.sid
           /\ reqs[r].roundId = sessions[last.sid].rounds[2].id
    /\ \E r \in Reqs : reqs[r].pc = "idle"

\* the keys of parsedResult.scores formatGradingResult reads for each
\* criterion it stores
CriterionKeys ==
    [clarityStructure |-> {"claritystructure", "clarity"},
     evidenceReasoning |-> {"evidencereasoning", "evidence"},
     framing |-> {"framing"},
     responsiveness |-> {"responsiveness"},
     control |-> {"control"},
     refutation |-> {"refutation"},
     defense |-> {"defense"},
     efficiencyFocus |-> {"efficiencyfocus", "efficiency"},
     crystallization |-> {"crystallization"},
     comparativeWeighing |-> {"comparativeweighing", "weighing"},
     delivery |-> {"delivery"}]

\* the raw scores the judge's output supplies for a criterion
RawScores(scores, criterion) ==
    {scores[key] : key \in CriterionKeys[criterion] \cap DOMAIN scores}

\* C29: the aggregator records the judge's raw score for each criterion: for
\* every raw score s in 0..5 the parsed output supplies for a criterion
\* (s = 0 included) the criterion score formatGradingResult stores is s, and
\* only a criterion missing from the output gets the default 3.
C29_RawScoreRecorded ==
    (/\ last.op = "gradeResponse"
     /\ ~last.result.threw
     /\ ~last.result.usedFallback) =>
        \A category \in DOMAIN last.result.grading :
            \A criterion \in DOMAIN last.result.grading[category]
                                \ {"subtotal"} :
                LET stored == last.result.grading[category][criterion]
                    raw == RawScores(last.arg.remote.scores, criterion)
                IN /\ raw = {} => stored = 3
                   /\ \A s \in raw \cap (0..5) : stored = s

\* C30: when every remote AI call eventually resolves or fails, each
\* accepted submit request eventually returns a response, and a session
\* that has taken its four submissions in sequence is complete from the
\* step that records the fourth.
C30_SubmitTerminates ==
    /\ \A r \in Reqs : (reqs[r].pc # "idle") ~> (reqs[r].pc = "idle")
    /\ [](\A s \in DOMAIN sessions :
              FourRounds(sessions[s]) => sessions[s].isComplete)

\* the fourth submission of a session has just returned after its grading
\* loop, the session is complete and no request is in flight
C30_Witness ==
    /\ last.op = "POST /submit"
    /\ last.status = 200
    /\ last.sid \in DOMAIN sessions
    /\ FourRounds(sessions[last.sid])
    /\ sessions[last.sid].isComplete
    /\ AllGraded(sessions[last.sid])
    /\ \A r \in Reqs : reqs[r].pc = "idle"

====
